---- MODULE Spec2Model ----
(***************************************************************************)
(* The conversation orchestrator of CTAgent: the agent loop of             *)
(* process_query in its four variants, the callers that drive it, and the  *)
(* conversation history they share.                                        *)
(*                                                                         *)
(*   "client"  src/client.py                 MCPClient, CLI chat_loop      *)
(*   "copy"    src/clientcopy.py             MCPClient with image queue    *)
(*   "lock"    src/CTAgent/client_gradio.py  MCPGradioClient, asyncio.Lock *)
(*   "worker"  src/client_gradio.py          MCPGradioClient, AsyncExecutor*)
(***************************************************************************)
EXTENDS Integers, Sequences, FiniteSets, TLC

\* ---------------------------------------------------------------- bounds
\* Retention bound handed to _trim_history (10 or 20 in the sources).
MaxLength == 2
\* Engine responses of one run that may ask for more tool work (the agent
\* loop itself puts no bound on them).
MaxRounds == 2
\* Requested invocations in one engine response.
MaxCalls == 2
\* Requested invocations in a response whose finish_reason is not
\* "tool_calls".
MaxStopCalls == 1
\* Queries submitted in one run.
MaxTurns == 3
\* Queries submitted in one run of the chat loop with an engine that is
\* given no tool work: enough for 2N+3 committed pairs.
ChatTurns == 2 * MaxLength + 3
\* Entries in the servers list of registry.json.
MaxServers == 3

Variants == {"client", "copy", "lock", "worker"}

\* Callers that can be inside gradio_respond / chat_loop at the same time.
Slots == {1, 2}

\* chat_loop awaits each process_query before reading the next query; the
\* Gradio front ends run one handler per request.
SlotsOf(v) == IF v \in {"client", "copy"} THEN {1} ELSE Slots

\* ------------------------------------------------------------- messages
Msg(role, content, calls, id) ==
    [role |-> role, content |-> content, tool_calls |-> calls, tool_call_id |-> id]

NoCalls == << >>

UserMsg(content) == Msg("user", content, NoCalls, 0)

\* {"role": "assistant", "content": message.content}
AssistantText(content) == Msg("assistant", content, NoCalls, 0)

\* assistant_msg: the content, plus tool_calls when message.tool_calls is set
AssistantMsg(resp) == Msg("assistant", resp.content, resp.tool_calls, 0)

\* {"role": "tool", "content": result.content[0].text, "tool_call_id": id}
ToolMsg(text, id) == Msg("tool", text, NoCalls, id)

\* {"role": "user", "content": [{"type": "image_url", ...}]}
ImageMsg(img_data) == Msg("user", <<"image", img_data>>, NoCalls, 0)

\* The system prompt clientcopy.py puts into the history at construction.
SystemMsg == Msg("system", <<"system", 0>>, NoCalls, 0)

\* ------------------------------------------------------------- registry
\* Server ids registry.json may name.
ServerIds == {"s1", "s2"}

\* Executables a configured server may point at.  "" stands for an entry
\* whose script is missing or does not exist on disk.
Scripts == {"calc.py", "pdftomd.py", "fetch.js", "run.sh", ""}

\* The tools a started server advertises in list_tools, in its own order.
ToolsOf(script) ==
    CASE script = "calc.py" -> <<"calculate">>
      [] script = "pdftomd.py" -> <<"load_image">>
      [] script = "fetch.js" -> <<"fetch", "calculate">>
      [] OTHER -> << >>

\* Every tool name some server advertises.
ToolOrder == <<"calculate", "load_image", "fetch">>

\* is_python or is_js
Supported(script) == script \in {"calc.py", "pdftomd.py", "fetch.js"}

\* Configuration lists of registry.json with at most MaxServers entries.
ServerEntries == [name : ServerIds, script : Scripts]

Configs == UNION {[1..n -> ServerEntries] : n \in 1..MaxServers}

\* The configuration the orchestrator runs were started with: every server
\* connected.  A session is named by the position of its entry in the list.
ConfiguredServers ==
    <<[name |-> "s1", script |-> "calc.py"],
      [name |-> "s2", script |-> "pdftomd.py"]>>

\* Sessions connected at startup and the flat tool name -> server id map.
ConnectedSessions == [s1 |-> 1, s2 |-> 2]

ConnectedTools == [calculate |-> "s1", load_image |-> "s2"]

NoEntries == [x \in {} |-> 0]

\* d[k] = v on a dict
Put(d, k, v) == [x \in DOMAIN d \cup {k} |-> IF x = k THEN v ELSE d[x]]

\* Mutant of Register: a name that is already mapped keeps its server.
RegisterFirst(map, tools, server_id) ==
    [x \in DOMAIN map \cup {tools[i] : i \in 1..Len(tools)} |->
        IF x \in DOMAIN map THEN map[x] ELSE server_id]

\* for tool in response.tools: self.tools_map[tool.name] = server_id
Register(map, tools, server_id) ==
    [x \in DOMAIN map \cup {tools[i] : i \in 1..Len(tools)} |->
        IF \E i \in 1..Len(tools) : tools[i] = x THEN server_id ELSE map[x]]

\* The descriptors one pass of the catalog loop adds for tool_name: those
\* tools of the owning session's listing that carry the name.
Descriptors(cfg, sess, map, tool_name) ==
    LET listing == ToolsOf(cfg[sess[map[tool_name]]].script)
        hits == SelectSeq(listing, LAMBDA tl : tl = tool_name)
    IN [i \in 1..Len(hits) |-> [name |-> hits[i], server |-> map[tool_name]]]

RECURSIVE CatalogFrom(_, _, _, _)
CatalogFrom(cfg, sess, map, k) ==
    IF k > Len(ToolOrder) THEN << >>
    ELSE (IF ToolOrder[k] \in DOMAIN map
          THEN Descriptors(cfg, sess, map, ToolOrder[k]) ELSE << >>)
         \o CatalogFrom(cfg, sess, map, k + 1)

\* available_tools as process_query (setup_mcp_client in the worker
\* variant) builds it: for every entry of tools_map, the descriptors of
\* that name in the owning session's listing.
Catalog(cfg, sess, map) == CatalogFrom(cfg, sess, map, 1)

\* self.tools_map.get(tool_name): the server id, or None
NoServer == "None"

\* Mutant of Resolve: an unmapped name falls back to a default server.
ResolveDefault(map, tool_name) ==
    IF tool_name \in DOMAIN map THEN map[tool_name] ELSE "s1"

Resolve(map, tool_name) ==
    IF tool_name \in DOMAIN map THEN map[tool_name] ELSE NoServer

\* ---------------------------------------------------------------- router
\* pipelines.json: named groups of tool names, in file order.
Pipelines ==
    <<[name |-> "image", tools |-> <<"load_image", "calculate">>],
      [name |-> "math", tools |-> <<"calculate", "plot">>]>>

\* Texts the scoring model can answer with (max_tokens=5, stop at blank).
ScorerTexts == {"0.49", "0.5", "0.9", "2", "-1", "nan", "abc", ""}

\* float(text): scores are kept in hundredths; nan is a float of its own.
Float(hundredths) == [nan |-> FALSE, val |-> hundredths]

NaN == [nan |-> TRUE, val |-> 0]

\* float(outs[0].outputs[0].text.strip()) raises ValueError
Malformed(text) == text \in {"abc", ""}

\* try: score = float(...)  except ValueError: score = 0.0
ParseScore(text) ==
    CASE text = "0.49" -> Float(49)
      [] text = "0.5" -> Float(50)
      [] text = "0.9" -> Float(90)
      [] text = "2" -> Float(200)
      [] text = "-1" -> Float(0 - 100)
      [] text = "nan" -> NaN
      [] OTHER -> Float(0)

\* threshold: float = 0.5
Threshold == 50

\* Mutant of AtLeast: a score equal to the threshold does not qualify.
Above(score, threshold) == ~score.nan /\ score.val > threshold

\* score >= threshold (false for nan)
AtLeast(score, threshold) == ~score.nan /\ score.val >= threshold

\* The scoring loop: selected_tools.extend(self.pipelines[name]["tools"])
\* for every pipeline whose score reaches the threshold.
RECURSIVE Extended(_, _, _)
Extended(pipeline_scores, threshold, k) ==
    IF k > Len(Pipelines) THEN << >>
    ELSE (IF AtLeast(pipeline_scores[k], threshold)
          THEN Pipelines[k].tools ELSE << >>)
         \o Extended(pipeline_scores, threshold, k + 1)

\* The seen/final_selected_tools loop: first occurrences, in order.
RECURSIVE Deduplicated(_)
Deduplicated(tools) ==
    IF tools = << >> THEN << >>
    ELSE LET front == Deduplicated(SubSeq(tools, 1, Len(tools) - 1))
             last == tools[Len(tools)]
         IN IF \E i \in 1..Len(front) : front[i] = last
            THEN front ELSE Append(front, last)

\* router_llm with routing enabled, from the scorer's answers.
router_llm(texts, threshold) ==
    Deduplicated(Extended([i \in 1..Len(texts) |-> ParseScore(texts[i])],
                          threshold, 1))

\* if candidates: available_tools = [t for t in available_tools if ...]
Narrowed(catalog, candidates) ==
    IF candidates # << >>
    THEN SelectSeq(catalog,
             LAMBDA d : \E i \in 1..Len(candidates) : candidates[i] = d.name)
    ELSE catalog

\* The scorer's answers of one turn: one per pipeline when clientcopy.py
\* runs with USE_LOCAL_AGENT, none otherwise.
ScorerRuns(v, local) ==
    IF v = "copy" /\ local THEN [1..Len(Pipelines) -> ScorerTexts] ELSE {<< >>}

\* self.recent_questions[-5:]
RecentWindow == 5

\* Mutant of Recent: the window keeps its oldest entries.
RecentOldest(questions, q) ==
    LET all == Append(questions, q)
    IN IF Len(all) > RecentWindow THEN SubSeq(all, 1, RecentWindow) ELSE all

\* recent_questions.append(query); recent_questions = recent_questions[-5:]
Recent(questions, q) ==
    LET all == Append(questions, q)
    IN IF Len(all) > RecentWindow
       THEN SubSeq(all, Len(all) - RecentWindow + 1, Len(all)) ELSE all

\* ---------------------------------------------------------------- engine
\* Names the engine may put into a requested invocation.  Only clientcopy.py
\* tells load_image from other tools.
RequestNames(v) ==
    IF v = "copy" THEN {"calculate", "load_image", "no_such_tool"}
    ELSE {"calculate", "no_such_tool"}

\* message.content of the engine's response in round `round` of the turn
\* for query number `serial`.  The orchestrator never looks into it, so every
\* response carries a text of its own.
Content(serial, round) == <<"answer", 10 * serial + round>>

\* Call identifiers generated by the engine, distinct within a turn.
CallId(round, i) == 10 * round + i

MakeCalls(names, round) ==
    [i \in 1..Len(names) |-> [id |-> CallId(round, i), name |-> names[i]]]

Batches(v, max) == UNION {[1..n -> RequestNames(v)] : n \in 1..max}

\* What chat.completions.create can return in round `round`; `more` says
\* whether it may still ask for tool work, `stopcalls` how many invocations
\* a response with another finish_reason may carry.  It returns a message with or
\* without tool_calls, and a finish_reason.  finish_reason "tool_calls"
\* comes with a non-empty tool_calls list; a message may carry tool_calls
\* under another finish_reason (forced tool choice, truncation).
Responses(v, serial, round, more, stopcalls) ==
    {[content |-> Content(serial, round), tool_calls |-> NoCalls,
      finish_reason |-> "stop"]}
    \cup
    {[content |-> Content(serial, round), tool_calls |-> MakeCalls(b, round),
      finish_reason |-> "stop"] : b \in Batches(v, stopcalls)}
    \cup
    IF more
    THEN {[content |-> Content(serial, round), tool_calls |-> MakeCalls(b, round),
           finish_reason |-> "tool_calls"] : b \in Batches(v, MaxCalls)}
    ELSE {}

NoResponse == [content |-> <<"none", 0>>, tool_calls |-> NoCalls, finish_reason |-> "none"]

\* ------------------------------------------------------------ operators
\* Mutant of trim_history: the oldest messages are kept, not the newest.
trim_historyHead(history, max_length) ==
    IF Len(history) > max_length * 2
    THEN SubSeq(history, 1, max_length * 2)
    ELSE history

\* _trim_history
trim_history(history, max_length) ==
    IF Len(history) > max_length * 2
    THEN SubSeq(history, Len(history) - max_length * 2 + 1, Len(history))
    ELSE history

\* Mutant of Filtered: nothing is filtered out.
FilteredNothing(msgs) == msgs

\* filtered = [m for m in messages if m["role"] != "tool"]
Filtered(msgs) == SelectSeq(msgs, LAMBDA m : m.role # "tool")

\* Mutant of HasToolWork: the loop branches on message.tool_calls.
HasToolCalls(resp) == resp.tool_calls # NoCalls

\* choice.finish_reason == "tool_calls"
HasToolWork(resp) == resp.finish_reason = "tool_calls"

\* The text of a call_tool result and the payload of a loaded image.
ResultText(id) == <<"result", id>>

\* The text of a failure the provider reports: f"转换失败：{e}"
FailureText(id) == <<"failure", id>>

\* error_msg = f"处理查询时出错: {str(e)}"
ErrorText(e) == <<"error", e>>

\* What a finished turn writes into the history.
Committed(v, history, msgs, user_content, content) ==
    IF v = "copy"
    THEN trim_history(history \o Filtered(msgs), MaxLength)
    ELSE trim_history(history \o <<UserMsg(user_content), AssistantText(content)>>,
                      MaxLength)

\* ------------------------------------------------------------ variables
VARIABLES
    variant,               \* which orchestrator runs
    sessions,              \* self.sessions (server ids)
    tools_map,             \* self.tools_map
    conversation_history,  \* self.conversation_history
    image_queue,           \* self.image_queue (clientcopy.py)
    lock,                  \* holder of self.lock, 0 when free (lock)
    running,               \* coroutine the event loop is running, 0 if none
    nturns,                \* queries submitted so far
    toolrounds,            \* engine responses that asked for tool work so far
    pc,                    \* per caller: position in the turn
    query,                 \* per caller: the query submitted
    messages,              \* per turn: the working message list
    response,              \* per turn: the engine's last response
    idx,                   \* per turn: position in message.tool_calls
    rounds,                \* per turn: engine calls made
    ret,                   \* per turn: value returned or error raised
    history0,              \* per turn: the history the turn copied
    requested,             \* per turn: call ids the loop was asked to run
    invoked,               \* per turn: call_tool calls issued, in order
    inflight,              \* per turn: call_tool calls not yet returned
    reported,              \* per turn: failures the providers reported
    servers,               \* config["servers"] of registry.json
    server_i,              \* startup: position in the servers list
    conn_pc,               \* startup: position in connect_to_server
    outcome,               \* startup: how each entry's connect ended
    available_tools,       \* the catalog handed to the engine
    use_local,             \* self.use_local (clientcopy.py)
    recent_questions,      \* self.recent_questions (clientcopy.py)
    scores,                \* router_llm: the scores computed so far
    selected_tools,        \* router_llm: selected_tools
    root_exists,           \* temp_manager.py: self.root is a directory
    entries,               \* temp_manager.py: what lies under self.root
    clock,                 \* time.time(), in milliseconds
    allocated,             \* the paths allocate() has returned, in order
    tm_pc,                 \* cleanup(): position in the sweep
    tm_op,                 \* the last two TempManager calls completed
    tm_now,                \* cleanup(): now
    todo,                  \* cleanup(): entries the running loop has left
    total,                 \* cleanup(): total
    entries0,              \* what lay under the root when cleanup() began
    size0,                 \* what lay under the root after the first loop
    agg_registry,          \* launch.py: registry, the list of scripts
    agg_pc,                \* launch.py: position in main()
    agg_si,                \* launch.py: position in sessions
    agg_ti,                \* launch.py: position in tools
    registered,            \* launch.py: the tools of the aggregate server
    cell_session,          \* launch.py: value of main()'s variable session
    cell_tool,             \* launch.py: value of main()'s variable _tool
    forwarded              \* launch.py: the last call an aggregated tool made

\* The scratch directory and its manager.
tempVars == <<root_exists, entries, clock, allocated, tm_pc, tm_op, tm_now,
              todo, total, entries0, size0>>
\* The aggregating server.
aggVars == <<agg_registry, agg_pc, agg_si, agg_ti, registered, cell_session,
             cell_tool, forwarded>>
\* What no turn changes.
fixedVars == <<variant, sessions, tools_map, servers, server_i, conn_pc,
               outcome, use_local, tempVars, aggVars>>
\* What only the head of a turn changes.
catalogVars == <<available_tools, recent_questions, scores, selected_tools>>
sharedVars == <<conversation_history, image_queue, lock, running, nturns,
                toolrounds>>
turnVars == <<pc, query, messages, response, idx, rounds, ret, history0,
              requested, invoked, inflight, reported>>
vars == <<fixedVars, catalogVars, sharedVars, turnVars>>

NoQuery == <<"query", 0>>
NoReturn == <<"none", 0>>

\* ------------------------------------------------------ the scratch root

\* Bounds of the scratch directory: how many entries lie under the root, how
\* many milliseconds pass, how many paths are allocated.
MaxEntries == 3
MaxTicks == 2
MaxAllocs == 2

\* ttl_sec and max_bytes of the manager, in milliseconds and in units of size.
TtlMs == 1000
MaxBytes == 2
\* The clock when the run starts.
Clock0 == 2 * TtlMs

EntryIds == 1..MaxEntries
Mtimes == {Clock0 - 2 * TtlMs, Clock0 - TtlMs, Clock0}
Sizes == {1, 2}
Suffixes == {"", ".png"}

\* An entry under the root: parent 0 is the root itself.
File(id, parent, mtime, size) ==
    [id |-> id, kind |-> "file", parent |-> parent, mtime |-> mtime,
     size |-> size]
Dir(id, parent, mtime) ==
    [id |-> id, kind |-> "dir", parent |-> parent, mtime |-> mtime, size |-> 0]

EntryChoices(id) ==
    {File(id, p, m, s) : p \in 0..(id - 1), m \in Mtimes, s \in Sizes}
        \cup {Dir(id, p, m) : p \in 0..(id - 1), m \in Mtimes}

\* Every entry lies in the root or in a directory that exists.
WellFormed(S) ==
    \A e \in S : e.parent # 0 =>
        \E d \in S : d.id = e.parent /\ d.kind = "dir"

\* The directory trees of at most n entries.
RECURSIVE Trees(_)
Trees(n) ==
    IF n = 0 THEN {{}}
    ELSE LET smaller == Trees(n - 1)
         IN  smaller \cup
             {T \in {S \cup {e} : S \in smaller, e \in EntryChoices(n)} :
                 WellFormed(T)}

\* self.root.iterdir() and what lies in a directory.
Children(S, d) == {e \in S : e.parent = d}

RECURSIVE Descendants(_, _)
Descendants(S, d) ==
    LET c == Children(S, d)
    IN  c \cup UNION {Descendants(S, e.id) : e \in c}

\* shutil.rmtree(p): the directory goes with everything below it.
rmtree(S, p) == S \ ({p} \cup Descendants(S, p.id))

\* sum(f.stat().st_size for f in self.root.rglob("*") if f.is_file())
RECURSIVE Usage(_)
Usage(S) ==
    IF S = {} THEN 0
    ELSE LET e == CHOOSE x \in S : TRUE
         IN  (IF e.kind = "file" THEN e.size ELSE 0) + Usage(S \ {e})

ExpiredLate(p, now) == (now - p.mtime) > 2 * TtlMs

\* (now - p.stat().st_mtime) > self.ttl_sec
Expired(p, now) == (now - p.mtime) > TtlMs

Newest(S) == {f \in S : \A g \in S : f.mtime >= g.mtime}

\* The head of sorted(..., key=lambda f: f.stat().st_mtime): rglob lists
\* entries in no fixed order, so any entry of the least mtime may come first.
Oldest(S) == {f \in S : \A g \in S : f.mtime <= g.mtime}

\* self.root / name with name = f"{ts}{suffix}"
PathUnderRoot(ts, suffix) == [parent |-> 0, name |-> <<ts, suffix>>]

\* The manager after TempManager(...) and clear_all() in the constructor of
\* the client, before any provider has written a file.
InitScratch ==
    /\ root_exists = TRUE
    /\ entries = {}
    /\ clock = Clock0
    /\ allocated = << >>
    /\ tm_pc = "idle"
    /\ tm_op = <<"none", "none">>
    /\ tm_now = 0
    /\ todo = {}
    /\ total = 0
    /\ entries0 = {}
    /\ size0 = {}

NoForward == [tool |-> "", session |-> 0, name |-> "", error |-> ""]

\* launch.py is not running.
InitAggregate ==
    /\ agg_registry = << >>
    /\ agg_pc = "off"
    /\ agg_si = 0
    /\ agg_ti = 0
    /\ registered = NoEntries
    /\ cell_session = 0
    /\ cell_tool = ""
    /\ forwarded = NoForward

\* The client object after construction, apart from its registry.
InitClient ==
    /\ variant \in Variants
    /\ conversation_history = IF variant = "copy" THEN <<SystemMsg>> ELSE << >>
    /\ image_queue = << >>
    /\ lock = 0
    /\ running = 0
    /\ nturns = 0
    /\ toolrounds = 0
    /\ pc = [t \in Slots |-> "idle"]
    /\ query = [t \in Slots |-> NoQuery]
    /\ messages = [t \in Slots |-> << >>]
    /\ response = [t \in Slots |-> NoResponse]
    /\ idx = [t \in Slots |-> 0]
    /\ rounds = [t \in Slots |-> 0]
    /\ ret = [t \in Slots |-> NoReturn]
    /\ history0 = [t \in Slots |-> << >>]
    /\ requested = [t \in Slots |-> << >>]
    /\ invoked = [t \in Slots |-> << >>]
    /\ inflight = [t \in Slots |-> {}]
    /\ reported = [t \in Slots |-> << >>]
    /\ recent_questions = << >>
    /\ scores = << >>
    /\ selected_tools = << >>

\* The registry after a startup in which every configured server connected.
InitRegistry ==
    /\ servers = ConfiguredServers
    /\ server_i = Len(ConfiguredServers) + 1
    /\ conn_pc = "ready"
    /\ outcome = [i \in 1..Len(ConfiguredServers) |-> "connected"]
    /\ sessions = ConnectedSessions
    /\ tools_map = ConnectedTools
    /\ available_tools = IF variant = "worker"
                         THEN Catalog(servers, sessions, tools_map) ELSE << >>

Init ==
    /\ InitClient
    /\ InitRegistry
    /\ use_local = FALSE
    /\ InitScratch
    /\ InitAggregate

\* --------------------------------------------------------------- actions
Gradio == variant \in {"lock", "worker"}

\* An exception leaves process_query: `async with self.lock` releases the
\* lock on the way out.  In the worker variant the coroutine's future hands
\* the exception to the caller's thread and the event loop is free again; in
\* the others the caller's except block runs before anything else.
Raise(t, e) ==
    /\ pc' = [pc EXCEPT ![t] = "raised"]
    /\ ret' = [ret EXCEPT ![t] = ErrorText(e)]
    /\ inflight' = [inflight EXCEPT ![t] = {}]
    /\ lock' = IF lock = t THEN 0 ELSE lock
    /\ running' = IF variant = "worker" THEN 0 ELSE t

\* process_query up to the agent loop: copy the history, append the query
\* (no file has been uploaded, so enhanced_query is the query), build the
\* catalog and, in clientcopy.py with routing on, narrow it.
\* gradio_respond returns early on a blank query; clientcopy.py skips the
\* user message (and the recent-question window) when the query is empty.
\* router_llm reads messages[-1], which raises on an empty working list.
Start(t, blank, turns) ==
    /\ t \in SlotsOf(variant)
    /\ pc[t] = "idle"
    /\ nturns < turns
    /\ running = 0
    /\ variant = "lock" => lock = 0
    /\ blank => variant = "copy"
    /\ LET q == <<IF blank THEN "blank" ELSE "query", nturns + 1>>
           msgs == IF variant = "copy" /\ blank
                   THEN conversation_history
                   ELSE Append(conversation_history, UserMsg(q))
           catalog == IF variant = "worker" THEN available_tools
                      ELSE Catalog(servers, sessions, tools_map)
           routed == variant = "copy" /\ use_local
       IN /\ query' = [query EXCEPT ![t] = q]
          /\ messages' = [messages EXCEPT ![t] = msgs]
          /\ recent_questions' = IF variant = "copy" /\ ~blank
                                  THEN Recent(recent_questions, q)
                                  ELSE recent_questions
          /\ IF routed /\ msgs = << >>
             THEN /\ pc' = [pc EXCEPT ![t] = "raised"]
                  /\ ret' = [ret EXCEPT ![t] = ErrorText("index")]
                  /\ running' = t
                  /\ available_tools' = catalog
                  /\ UNCHANGED <<scores, selected_tools>>
             ELSE /\ pc' = [pc EXCEPT ![t] = "model"]
                  /\ ret' = [ret EXCEPT ![t] = NoReturn]
                  \* the worker variant reaches the first engine call
                  \* without an await; the others await
                  \* session.list_tools() while building the catalog
                  /\ running' = IF variant = "worker" THEN t ELSE 0
                  /\ \E texts \in ScorerRuns(variant, use_local) :
                        /\ scores' = [i \in 1..Len(texts) |->
                               [text |-> texts[i], score |-> ParseScore(texts[i])]]
                        /\ selected_tools' =
                               IF routed THEN router_llm(texts, Threshold)
                               ELSE << >>
                        /\ available_tools' =
                               IF routed
                               THEN Narrowed(catalog, router_llm(texts, Threshold))
                               ELSE catalog
    /\ history0' = [history0 EXCEPT ![t] = conversation_history]
    /\ nturns' = nturns + 1
    /\ lock' = IF variant = "lock" THEN t ELSE lock
    /\ response' = [response EXCEPT ![t] = NoResponse]
    /\ idx' = [idx EXCEPT ![t] = 0]
    /\ rounds' = [rounds EXCEPT ![t] = 0]
    /\ requested' = [requested EXCEPT ![t] = << >>]
    /\ invoked' = [invoked EXCEPT ![t] = << >>]
    /\ inflight' = [inflight EXCEPT ![t] = {}]
    /\ reported' = [reported EXCEPT ![t] = << >>]
    /\ UNCHANGED <<fixedVars, conversation_history,
                   image_queue, toolrounds>>

\* chat.completions.create returns; the assistant message is appended.
CallModel(t, cap, stopcalls) ==
    /\ pc[t] = "model"
    /\ running \in {0, t}
    /\ \E resp \in Responses(variant, query[t][2], rounds[t] + 1,
                             toolrounds < cap, stopcalls) :
        /\ response' = [response EXCEPT ![t] = resp]
        /\ messages' = [messages EXCEPT ![t] = Append(@, AssistantMsg(resp))]
        /\ pc' = [pc EXCEPT ![t] = IF HasToolWork(resp) THEN "tools" ELSE "finalize"]
        /\ requested' = [requested EXCEPT ![t] =
               IF HasToolWork(resp)
               THEN @ \o [i \in 1..Len(resp.tool_calls) |-> resp.tool_calls[i].id]
               ELSE @]
        /\ toolrounds' = IF HasToolWork(resp) THEN toolrounds + 1 ELSE toolrounds
    /\ rounds' = [rounds EXCEPT ![t] = @ + 1]
    /\ idx' = [idx EXCEPT ![t] = 1]
    /\ running' = t
    /\ UNCHANGED <<fixedVars, catalogVars, reported, conversation_history,
                   image_queue, lock, nturns,
                   query, ret, history0, invoked, inflight>>

\* chat.completions.create raises (network, API error).
ModelFails(t) ==
    /\ pc[t] = "model"
    /\ running \in {0, t}
    /\ Raise(t, "engine")
    /\ UNCHANGED <<fixedVars, catalogVars, reported, conversation_history,
                   image_queue, nturns, toolrounds,
                   query, messages, response, idx, rounds, history0,
                   requested, invoked>>

\* Mutant of BeginInvoke: the call is sent but not awaited, and the loop goes
\* on to the next requested invocation.
BeginInvokeNoAwait(t) ==
    /\ pc[t] = "tools"
    /\ running = t
    /\ LET call == response[t].tool_calls[idx[t]]
           server_id == IF call.name \in DOMAIN tools_map
                        THEN tools_map[call.name] ELSE NoServer
       IN IF server_id = NoServer
          THEN /\ Raise(t, "unknown")
               /\ UNCHANGED <<invoked, idx>>
          ELSE /\ invoked' = [invoked EXCEPT ![t] =
                       Append(@, [id |-> call.id, name |-> call.name,
                                  server |-> server_id])]
               /\ inflight' = [inflight EXCEPT ![t] = @ \cup {call.id}]
               /\ idx' = [idx EXCEPT ![t] = @ + 1]
               /\ pc' = [pc EXCEPT ![t] =
                      IF idx[t] + 1 > Len(response[t].tool_calls)
                      THEN "model" ELSE "tools"]
               /\ running' = t
               /\ UNCHANGED <<lock, ret>>
    /\ UNCHANGED <<fixedVars, catalogVars, reported, conversation_history,
                   image_queue, nturns, toolrounds,
                   query, messages, response, rounds, history0, requested>>

\* One iteration of `for tool_call in message.tool_calls`, up to the await:
\* resolve the name, raise if it is not mapped, else send the call.
BeginInvoke(t) ==
    /\ pc[t] = "tools"
    /\ running = t
    /\ LET call == response[t].tool_calls[idx[t]]
           server_id == Resolve(tools_map, call.name)
       IN IF server_id = NoServer
          THEN /\ Raise(t, "unknown")
               /\ UNCHANGED invoked
          ELSE /\ invoked' = [invoked EXCEPT ![t] =
                       Append(@, [id |-> call.id, name |-> call.name,
                                  server |-> server_id])]
               /\ inflight' = [inflight EXCEPT ![t] = @ \cup {call.id}]
               /\ pc' = [pc EXCEPT ![t] = "await"]
               /\ running' = 0
               /\ UNCHANGED <<lock, ret>>
    /\ UNCHANGED <<fixedVars, catalogVars, reported, conversation_history,
                   image_queue, nturns, toolrounds,
                   query, messages, response, idx, rounds, history0, requested>>

\* The messages one finished invocation adds to the working list, and what
\* is left in the image queue.  clientcopy.py queues a load_image result and
\* empties the queue at the end of the same loop iteration.
AfterResult(v, msgs, queue, call, text) ==
    IF v = "copy"
    THEN LET q1 == IF call.name = "load_image"
                   THEN Append(queue, text) ELSE queue
             m1 == IF call.name = "load_image"
                   THEN msgs ELSE Append(msgs, ToolMsg(text, call.id))
         IN [messages |-> m1 \o [i \in 1..Len(q1) |-> ImageMsg(q1[i])],
             image_queue |-> << >>]
    ELSE [messages |-> Append(msgs, ToolMsg(text, call.id)),
          image_queue |-> queue]

\* json.loads(tool_call.function.arguments) raises on a malformed payload.
ArgumentsFail(t) ==
    /\ pc[t] = "tools"
    /\ running = t
    /\ Raise(t, "arguments")
    /\ UNCHANGED <<fixedVars, catalogVars, reported, conversation_history,
                   image_queue, nturns, toolrounds,
                   query, messages, response, idx, rounds, history0,
                   requested, invoked>>

\* What the provider can answer: its result, or the text of a failure it
\* reports (a tool that returns its error as text, or a result flagged
\* isError, which the loop does not look at).
Outcomes == {"ok", "failed"}

\* Mutant of EndInvoke: a failure the provider reports is raised.
EndInvokeRaising(t, outcomes) ==
    /\ pc[t] = "await"
    /\ running = 0
    /\ \E o \in outcomes :
        LET call == response[t].tool_calls[idx[t]]
            text == IF o = "ok" THEN ResultText(call.id) ELSE FailureText(call.id)
            after == AfterResult(variant, messages[t], image_queue, call, text)
        IN /\ reported' = [reported EXCEPT ![t] =
                  IF o = "failed"
                  THEN Append(@, [id |-> call.id, name |-> call.name, text |-> text])
                  ELSE @]
           /\ IF o = "failed"
              THEN /\ Raise(t, "provider")
                   /\ UNCHANGED <<messages, image_queue, idx>>
              ELSE /\ messages' = [messages EXCEPT ![t] = after.messages]
                   /\ image_queue' = after.image_queue
                   /\ inflight' = [inflight EXCEPT ![t] = @ \ {call.id}]
                   /\ idx' = [idx EXCEPT ![t] = @ + 1]
                   /\ pc' = [pc EXCEPT ![t] =
                          IF idx[t] + 1 > Len(response[t].tool_calls)
                          THEN "model" ELSE "tools"]
                   /\ running' = t
                   /\ UNCHANGED <<lock, ret>>
    /\ UNCHANGED <<fixedVars, catalogVars, conversation_history, nturns, toolrounds,
                   query, response, rounds, history0, requested, invoked>>

\* call_tool returns: the rest of the loop iteration.
EndInvoke(t, outcomes) ==
    /\ pc[t] = "await"
    /\ running = 0
    /\ \E o \in outcomes :
        LET call == response[t].tool_calls[idx[t]]
            text == IF o = "ok" THEN ResultText(call.id) ELSE FailureText(call.id)
            after == AfterResult(variant, messages[t], image_queue, call, text)
        IN /\ messages' = [messages EXCEPT ![t] = after.messages]
           /\ image_queue' = after.image_queue
           /\ inflight' = [inflight EXCEPT ![t] = @ \ {call.id}]
           /\ reported' = [reported EXCEPT ![t] =
                  IF o = "failed"
                  THEN Append(@, [id |-> call.id, name |-> call.name, text |-> text])
                  ELSE @]
    /\ idx' = [idx EXCEPT ![t] = @ + 1]
    /\ pc' = [pc EXCEPT ![t] =
           IF idx[t] + 1 > Len(response[t].tool_calls) THEN "model" ELSE "tools"]
    /\ running' = t
    /\ UNCHANGED <<fixedVars, catalogVars, conversation_history, lock, nturns, toolrounds,
                   query, response, rounds, ret, history0, requested, invoked>>

\* call_tool raises (the channel to the provider failed).
InvokeFails(t) ==
    /\ pc[t] = "await"
    /\ running = 0
    /\ Raise(t, "channel")
    /\ UNCHANGED <<fixedVars, catalogVars, reported, conversation_history,
                   image_queue, nturns, toolrounds,
                   query, messages, response, idx, rounds, history0,
                   requested, invoked>>

\* Mutant of Finalize: the branch neither commits nor returns.
FinalizeNoCommit(t) ==
    /\ pc[t] = "finalize"
    /\ running = t
    /\ UNCHANGED vars

\* The branch taken when finish_reason is not "tool_calls": commit, trim,
\* return message.content.
Finalize(t) ==
    /\ pc[t] = "finalize"
    /\ running = t
    /\ conversation_history' =
           Committed(variant, conversation_history, messages[t],
                     query[t],
                     response[t].content)
    /\ ret' = [ret EXCEPT ![t] = <<"ok", response[t].content>>]
    /\ pc' = [pc EXCEPT ![t] = "done"]
    /\ lock' = IF lock = t THEN 0 ELSE lock
    /\ running' = IF variant = "worker" THEN 0 ELSE t
    /\ UNCHANGED <<fixedVars, catalogVars, reported, image_queue,
                   nturns, toolrounds, query, messages, response, idx, rounds, history0,
                   requested, invoked, inflight>>

\* The caller is done with the turn; its locals go out of scope (the worker
\* variant keeps its preloaded catalog on the client).
Forget(t) ==
    /\ pc' = [pc EXCEPT ![t] = "idle"]
    /\ query' = [query EXCEPT ![t] = NoQuery]
    /\ messages' = [messages EXCEPT ![t] = << >>]
    /\ response' = [response EXCEPT ![t] = NoResponse]
    /\ idx' = [idx EXCEPT ![t] = 0]
    /\ rounds' = [rounds EXCEPT ![t] = 0]
    /\ ret' = [ret EXCEPT ![t] = NoReturn]
    /\ history0' = [history0 EXCEPT ![t] = << >>]
    /\ requested' = [requested EXCEPT ![t] = << >>]
    /\ invoked' = [invoked EXCEPT ![t] = << >>]
    /\ inflight' = [inflight EXCEPT ![t] = {}]
    /\ reported' = [reported EXCEPT ![t] = << >>]
    /\ scores' = << >>
    /\ selected_tools' = << >>
    /\ available_tools' = IF variant = "worker" THEN available_tools ELSE << >>

\* The caller gets the answer: chat_loop prints it, gradio_respond renders
\* the history.
Return(t) ==
    /\ pc[t] = "done"
    /\ variant # "worker" => running = t
    /\ Forget(t)
    /\ running' = IF running = t THEN 0 ELSE running
    /\ UNCHANGED <<fixedVars, recent_questions, conversation_history,
                   image_queue, lock, nturns, toolrounds>>

\* The caller's except block: chat_loop prints the error and reads the next
\* query; gradio_respond appends the query to the history first.
HandleError(t) ==
    /\ pc[t] = "raised"
    /\ variant # "worker" => running = t
    /\ IF Gradio
       THEN /\ conversation_history' =
                   Append(conversation_history, UserMsg(query[t]))
            /\ pc' = [pc EXCEPT ![t] = "recording"]
            /\ UNCHANGED <<running, query, messages, response, idx, rounds,
                           ret, history0, requested, invoked, inflight,
                           reported, available_tools, scores,
                           selected_tools>>
       ELSE /\ Forget(t)
            /\ running' = IF running = t THEN 0 ELSE running
            /\ UNCHANGED conversation_history
    /\ UNCHANGED <<fixedVars, recent_questions, image_queue,
                   lock, nturns, toolrounds>>

\* gradio_respond's except block, second append: the error text as an
\* assistant message; then the handler returns.
RecordError(t) ==
    /\ pc[t] = "recording"
    /\ variant # "worker" => running = t
    /\ conversation_history' =
           Append(conversation_history, AssistantText(ret[t]))
    /\ Forget(t)
    /\ running' = IF running = t THEN 0 ELSE running
    /\ UNCHANGED <<fixedVars, recent_questions, image_queue,
                   lock, nturns, toolrounds>>

\* The 'clear' command of chat_loop (read between turns) and the clear
\* button of the Gradio front ends (a handler of its own, run in a thread).
ClearHistory ==
    /\ conversation_history # << >>
    /\ ~Gradio => pc[1] = "idle"
    /\ conversation_history' = << >>
    /\ UNCHANGED <<fixedVars, catalogVars, image_queue,
                   lock, running, nturns, toolrounds, turnVars>>

\* --------------------------------------------------------------- startup
\* The loop of main / setup_mcp_client over config["servers"].
clientVars == <<variant, use_local, recent_questions, scores, selected_tools,
                sharedVars, turnVars, tempVars, aggVars>>

Connecting == conn_pc = "loop" /\ server_i <= Len(servers)

NextServer(result) ==
    /\ outcome' = [outcome EXCEPT ![server_i] = result]
    /\ server_i' = server_i + 1
    /\ conn_pc' = "loop"

\* An entry without a name or a script, or whose script does not exist, is
\* passed over without a connect.
SkipServer ==
    /\ Connecting
    /\ servers[server_i].script = ""
    /\ NextServer("skipped")
    /\ UNCHANGED <<servers, sessions, tools_map, available_tools, clientVars>>

\* Mutant of ConnectBegin: the id is not looked up in self.sessions.
ConnectBeginUnchecked ==
    /\ Connecting
    /\ servers[server_i].script # ""
    /\ IF ~Supported(servers[server_i].script)
       THEN NextServer("unsupported")
       ELSE /\ conn_pc' = "handshake"
            /\ UNCHANGED <<outcome, server_i>>
    /\ UNCHANGED <<servers, sessions, tools_map, available_tools, clientVars>>

\* connect_to_server up to its first await: the two ValueErrors, which the
\* loop's except prints before it goes on to the next entry.
ConnectBegin ==
    /\ Connecting
    /\ servers[server_i].script # ""
    /\ IF servers[server_i].name \in DOMAIN sessions
       THEN NextServer("duplicate")
       ELSE IF ~Supported(servers[server_i].script)
            THEN NextServer("unsupported")
            ELSE /\ conn_pc' = "handshake"
                 /\ UNCHANGED <<outcome, server_i>>
    /\ UNCHANGED <<servers, sessions, tools_map, available_tools, clientVars>>

\* stdio_client, ClientSession and session.initialize(): the session is
\* stored once the handshake is through, or one of the three raises.
Handshake(ok) ==
    /\ conn_pc = "handshake"
    /\ IF ok
       THEN /\ sessions' = Put(sessions, servers[server_i].name, server_i)
            /\ conn_pc' = "list"
            /\ UNCHANGED <<outcome, server_i>>
       ELSE /\ NextServer("handshake")
            /\ UNCHANGED sessions
    /\ UNCHANGED <<servers, tools_map, available_tools, clientVars>>

\* session.list_tools() and the update of tools_map, or list_tools raises.
ListTools(ok) ==
    /\ conn_pc = "list"
    /\ IF ok
       THEN /\ tools_map' = Register(tools_map, ToolsOf(servers[server_i].script),
                                     servers[server_i].name)
            /\ NextServer("connected")
       ELSE /\ NextServer("listing")
            /\ UNCHANGED tools_map
    /\ UNCHANGED <<servers, sessions, available_tools, clientVars>>

\* The loop is over; setup_mcp_client of the worker variant preloads
\* client.available_tools, the others build the catalog in every turn.
FinishStartup ==
    /\ conn_pc = "loop"
    /\ server_i > Len(servers)
    /\ conn_pc' = "ready"
    /\ available_tools' = IF variant = "worker"
                          THEN Catalog(servers, sessions, tools_map)
                          ELSE available_tools
    /\ UNCHANGED <<servers, server_i, outcome, sessions, tools_map, clientVars>>

\* list_tools raises during the preload: setup_mcp_client cleans the client
\* and re-raises, the program ends.
PreloadFails ==
    /\ conn_pc = "loop"
    /\ server_i > Len(servers)
    /\ variant = "worker"
    /\ tools_map # NoEntries
    /\ conn_pc' = "aborted"
    /\ sessions' = NoEntries
    /\ tools_map' = NoEntries
    /\ conversation_history' = << >>
    /\ UNCHANGED <<servers, server_i, outcome, available_tools, variant,
                   use_local, recent_questions, scores, selected_tools,
                   image_queue, lock, running, nturns, toolrounds, turnVars,
                   tempVars, aggVars>>

Next ==
    \/ \E t \in Slots, blank \in BOOLEAN : Start(t, blank, MaxTurns)
    \/ \E t \in Slots : CallModel(t, MaxRounds, MaxStopCalls)
    \/ \E t \in Slots : ModelFails(t)
    \/ \E t \in Slots : ArgumentsFail(t)
    \/ \E t \in Slots : BeginInvoke(t)
    \/ \E t \in Slots : EndInvoke(t, {"ok"})
    \/ \E t \in Slots : InvokeFails(t)
    \/ \E t \in Slots : Finalize(t)
    \/ \E t \in Slots : Return(t)
    \/ \E t \in Slots : HandleError(t)
    \/ \E t \in Slots : RecordError(t)
    \/ ClearHistory

Spec == Init /\ [][Next]_vars

\* The chat loops of client.py and clientcopy.py over a longer run of
\* non-empty queries, with an engine that never asks for tool work and never
\* fails: every turn commits.
InitChat == Init /\ variant \in {"client", "copy"}

NextChat ==
    \/ Start(1, FALSE, ChatTurns)
    \/ CallModel(1, 0, MaxStopCalls)
    \/ Finalize(1)
    \/ Return(1)

SpecChat == InitChat /\ [][NextChat]_vars

\* Startup over any configuration list: the registry starts empty.
InitConnect ==
    /\ InitClient
    /\ InitScratch
    /\ InitAggregate
    /\ use_local = FALSE
    /\ servers \in Configs
    /\ server_i = 1
    /\ conn_pc = "loop"
    /\ outcome = [i \in 1..Len(servers) |-> "pending"]
    /\ sessions = NoEntries
    /\ tools_map = NoEntries
    /\ available_tools = << >>

NextConnect ==
    \/ SkipServer
    \/ ConnectBegin
    \/ \E ok \in BOOLEAN : Handshake(ok)
    \/ \E ok \in BOOLEAN : ListTools(ok)
    \/ FinishStartup
    \/ PreloadFails

SpecConnect == InitConnect /\ [][NextConnect]_vars

\* The chat loop of clientcopy.py with or without the local router; the
\* engine is given no tool work.
InitRouter ==
    /\ InitClient
    /\ variant = "copy"
    /\ InitRegistry
    /\ use_local \in BOOLEAN
    /\ InitScratch
    /\ InitAggregate

NextRouter ==
    \/ \E blank \in BOOLEAN : Start(1, blank, MaxTurns)
    \/ CallModel(1, 0, 0)
    \/ ModelFails(1)
    \/ Finalize(1)
    \/ Return(1)
    \/ HandleError(1)
    \/ ClearHistory

SpecRouter == InitRouter /\ [][NextRouter]_vars

\* The same chat loop without the router, over enough queries to fill the
\* recent-question window and evict from it.
RecentTurns == RecentWindow + 2

InitRecent == InitRouter /\ ~use_local

NextRecent ==
    \/ \E blank \in BOOLEAN : Start(1, blank, RecentTurns)
    \/ CallModel(1, 0, 0)
    \/ ModelFails(1)
    \/ Finalize(1)
    \/ Return(1)
    \/ HandleError(1)
    \/ ClearHistory

SpecRecent == InitRecent /\ [][NextRecent]_vars

\* The orchestrators with providers that may report failures, over
\* InvokeTurns queries.
InvokeTurns == 2

NextInvoke ==
    \/ \E t \in Slots, blank \in BOOLEAN : Start(t, blank, InvokeTurns)
    \/ \E t \in Slots : CallModel(t, MaxRounds, 0)
    \/ \E t \in Slots : ModelFails(t)
    \/ \E t \in Slots : BeginInvoke(t)
    \/ \E t \in Slots : EndInvoke(t, Outcomes)
    \/ \E t \in Slots : InvokeFails(t)
    \/ \E t \in Slots : Finalize(t)
    \/ \E t \in Slots : Return(t)
    \/ \E t \in Slots : HandleError(t)
    \/ \E t \in Slots : RecordError(t)

SpecInvoke == Init /\ [][NextInvoke]_vars

\* The chat loop of clientcopy.py with the local router on and an engine
\* that asks for tool work, over RoutedTurns queries.
RoutedTurns == 1

InitRouted == InitRouter /\ use_local

NextRouted ==
    \/ \E blank \in BOOLEAN : Start(1, blank, RoutedTurns)
    \/ CallModel(1, MaxRounds, 0)
    \/ BeginInvoke(1)
    \/ EndInvoke(1, {"ok"})
    \/ Finalize(1)
    \/ Return(1)
    \/ HandleError(1)

SpecRouted == InitRouted /\ [][NextRouted]_vars

\* The orchestrators over LiveTurns queries with an engine that answers
\* every call, asks for tool work MaxRounds times at most, and providers
\* that answer every invocation. The event loop runs every coroutine that
\* can go on, so each step of a turn that stays possible is taken.
LiveTurns == 2

NextLive ==
    \/ \E t \in Slots, blank \in BOOLEAN : Start(t, blank, LiveTurns)
    \/ \E t \in Slots : CallModel(t, MaxRounds, 0)
    \/ \E t \in Slots : BeginInvoke(t)
    \/ \E t \in Slots : EndInvoke(t, {"ok"})
    \/ \E t \in Slots : Finalize(t)
    \/ \E t \in Slots : Return(t)
    \/ \E t \in Slots : HandleError(t)
    \/ \E t \in Slots : RecordError(t)

SpecLive ==
    /\ Init
    /\ [][NextLive]_vars
    /\ \A t \in Slots :
        /\ WF_vars(CallModel(t, MaxRounds, 0))
        /\ WF_vars(BeginInvoke(t))
        /\ WF_vars(EndInvoke(t, {"ok"}))
        /\ WF_vars(Finalize(t))

\* ------------------------------------------------------- temp_manager.py

\* Everything of the client, which the manager never touches.
clientSide == <<variant, sessions, tools_map, servers, server_i, conn_pc,
                outcome, use_local, catalogVars, sharedVars, turnVars>>

\* How one access to an entry can end: it works, the permission is denied,
\* or someone else removed the entry just before.
Accesses == {"ok", "denied", "vanished"}

\* A millisecond passes. cleanup() reads the clock once, so time that passes
\* during a sweep changes nothing.
Tick ==
    /\ tm_pc = "idle"
    /\ clock < Clock0 + MaxTicks
    /\ clock' = clock + 1
    /\ UNCHANGED <<root_exists, entries, allocated, tm_pc, tm_op, tm_now, todo,
                   total, entries0, size0, clientSide, aggVars>>

\* allocate(suffix): builds the path and creates nothing.
allocate(suffix) ==
    /\ tm_pc = "idle"
    /\ Len(allocated) < MaxAllocs
    /\ allocated' = Append(allocated, PathUnderRoot(clock, suffix))
    /\ tm_op' = <<tm_op[2], "allocate">>
    /\ UNCHANGED <<root_exists, entries, clock, tm_pc, tm_now, todo, total,
                   entries0, size0, clientSide, aggVars>>

\* cleanup() up to the head of its first loop: iterdir() raises when the
\* root is missing.
cleanup ==
    /\ tm_pc = "idle"
    /\ tm_now' = clock
    /\ entries0' = entries
    /\ size0' = {}
    /\ total' = 0
    /\ IF root_exists
       THEN tm_pc' = "ttl" /\ todo' = Children(entries, 0)
       ELSE tm_pc' = "raised" /\ todo' = {}
    /\ UNCHANGED <<root_exists, entries, clock, allocated, tm_op, clientSide,
                   aggVars>>

\* One iteration of the first loop. Nothing catches what stat() or unlink()
\* raises; rmtree(ignore_errors=True) raises nothing.
TtlPass(accesses) ==
    /\ tm_pc = "ttl"
    /\ todo # {}
    /\ \E p \in todo, a \in accesses :
        /\ todo' = todo \ {p}
        /\ IF p.kind = "file"
           THEN IF a = "vanished"
                THEN tm_pc' = "raised" /\ entries' = entries \ {p}
                ELSE IF Expired(p, tm_now)
                     THEN IF a = "ok"
                          THEN tm_pc' = "ttl" /\ entries' = entries \ {p}
                          ELSE tm_pc' = "raised" /\ entries' = entries
                     ELSE a = "ok" /\ tm_pc' = "ttl" /\ entries' = entries
           ELSE /\ a # "vanished"
                /\ tm_pc' = "ttl"
                /\ entries' = IF a = "ok" THEN rmtree(entries, p) ELSE entries
    /\ UNCHANGED <<root_exists, clock, allocated, tm_op, tm_now, total,
                   entries0, size0, clientSide, aggVars>>

\* total = sum(...) and, above the ceiling, files = sorted(...): stat() of
\* a file that has just been removed raises.
Total(accesses) ==
    /\ tm_pc = "ttl"
    /\ todo = {}
    /\ \E a \in accesses \ {"denied"} :
        IF a = "vanished"
        THEN /\ \E f \in {e \in entries : e.kind = "file"} :
                    entries' = entries \ {f}
             /\ tm_pc' = "raised"
             /\ UNCHANGED <<total, todo, size0>>
        ELSE /\ total' = Usage(entries)
             /\ size0' = entries
             /\ IF total' > MaxBytes
                THEN tm_pc' = "size" /\ todo' = entries
                ELSE tm_pc' = "returned" /\ todo' = {}
             /\ UNCHANGED entries
    /\ UNCHANGED <<root_exists, clock, allocated, tm_op, tm_now, entries0,
                   clientSide, aggVars>>

\* One iteration of the second loop, oldest entry first. An entry that went
\* with its directory is no file any more and counts for nothing; so does a
\* directory, whatever it held.
CapacityPass(accesses) ==
    /\ tm_pc = "size"
    /\ IF total <= MaxBytes \/ todo = {}
       THEN /\ tm_pc' = "returned"
            /\ todo' = {}
            /\ UNCHANGED <<entries, total>>
       ELSE \E f \in Oldest(todo), a \in accesses \ {"vanished"} :
            LET is_file == f \in entries /\ f.kind = "file"
                size == IF is_file THEN f.size ELSE 0
            IN  /\ todo' = todo \ {f}
                /\ tm_pc' = "size"
                /\ IF is_file
                   THEN IF a = "ok"
                        THEN entries' = entries \ {f} /\ total' = total - size
                        ELSE UNCHANGED <<entries, total>>
                   ELSE /\ entries' = IF a = "ok" /\ f \in entries
                                      THEN rmtree(entries, f) ELSE entries
                        /\ total' = total - size
    /\ UNCHANGED <<root_exists, clock, allocated, tm_op, tm_now, entries0,
                   size0, clientSide, aggVars>>

\* chat_loop goes on after cleanup(), whether it returned or raised; the
\* locals of cleanup() are gone.
AfterCleanup ==
    /\ tm_pc \in {"returned", "raised"}
    /\ tm_pc' = "idle"
    /\ tm_op' = <<tm_op[2], "cleanup">>
    /\ tm_now' = 0
    /\ todo' = {}
    /\ total' = 0
    /\ entries0' = {}
    /\ size0' = {}
    /\ UNCHANGED <<root_exists, entries, clock, allocated, clientSide,
                   aggVars>>

clear_allNoMkdir(accesses) ==
    /\ tm_pc = "idle"
    /\ entries' = {}
    /\ root_exists' = FALSE
    /\ tm_op' = <<tm_op[2], "clear_all">>
    /\ UNCHANGED <<clock, allocated, tm_pc, tm_now, todo, total, entries0,
                   size0, clientSide, aggVars>>

\* clear_all(): rmtree(ignore_errors=True) leaves behind, silently, what it
\* may not delete; mkdir(exist_ok=True) makes the root if it is gone.
clear_all(accesses) ==
    /\ tm_pc = "idle"
    /\ \E a \in accesses \ {"vanished"} :
        IF a = "ok"
        THEN entries' = {}
        ELSE \E kept \in SUBSET entries :
                kept # {} /\ WellFormed(kept) /\ entries' = kept
    /\ root_exists' = TRUE
    /\ tm_op' = <<tm_op[2], "clear_all">>
    /\ UNCHANGED <<clock, allocated, tm_pc, tm_now, todo, total, entries0,
                   size0, clientSide, aggVars>>

\* The scratch directory as providers and the outside world may have left
\* it: missing, empty, or a tree of files and directories.
InitTemp ==
    /\ InitClient
    /\ variant = "copy"
    /\ InitRegistry
    /\ use_local = FALSE
    /\ InitAggregate
    /\ root_exists \in BOOLEAN
    /\ entries \in (IF root_exists THEN Trees(MaxEntries) ELSE {{}})
    /\ clock = Clock0
    /\ allocated = << >>
    /\ tm_pc = "idle"
    /\ tm_op = <<"none", "none">>
    /\ tm_now = 0
    /\ todo = {}
    /\ total = 0
    /\ entries0 = {}
    /\ size0 = {}

\* The manager when every access to the file system works.
NextTemp ==
    \/ Tick
    \/ \E suffix \in Suffixes : allocate(suffix)
    \/ cleanup
    \/ TtlPass({"ok"})
    \/ Total({"ok"})
    \/ CapacityPass({"ok"})
    \/ AfterCleanup
    \/ clear_all({"ok"})

SpecTemp == InitTemp /\ [][NextTemp]_vars

\* The manager when accesses may fail.
NextTempFaults ==
    \/ cleanup
    \/ TtlPass(Accesses)
    \/ Total(Accesses)
    \/ CapacityPass(Accesses)
    \/ AfterCleanup
    \/ clear_all(Accesses)

SpecTempFaults == InitTemp /\ [][NextTempFaults]_vars

\* ------------------------------------------------------------- launch.py

\* The scripts a registry may list.
AggScripts == {"calc.py", "pdftomd.py", "fetch.js"}

\* registry.json as launch.py reads it: a non-empty list of scripts.
Registries == UNION {[1..n -> AggScripts] : n \in 1..MaxServers}

\* What the name _tool can give when the body of an aggregated tool looks up
\* _tool.name: the decorator of the installed FastMCP hands back either the
\* plain function, which has no such attribute, or an object that carries
\* the name it was registered under.
Lookups == {"AttributeError", "name"}

\* main() has read the registry and is about to start the providers.
InitLaunch ==
    /\ InitClient
    /\ variant = "client"
    /\ InitRegistry
    /\ use_local = FALSE
    /\ InitScratch
    /\ agg_registry \in Registries
    /\ agg_pc = "spawn"
    /\ agg_si = 1
    /\ agg_ti = 0
    /\ registered = NoEntries
    /\ cell_session = 0
    /\ cell_tool = ""
    /\ forwarded = NoForward

\* One iteration of `for script in registry`: an exception leaves main().
Spawn(ok) ==
    /\ agg_pc = "spawn"
    /\ agg_si <= Len(agg_registry)
    /\ IF ok
       THEN /\ cell_session' = agg_si
            /\ agg_si' = agg_si + 1
            /\ agg_pc' = "spawn"
       ELSE /\ agg_pc' = "failed"
            /\ UNCHANGED <<agg_si, cell_session>>
    /\ UNCHANGED <<agg_registry, agg_ti, registered, cell_tool, forwarded,
                   clientSide, tempVars>>

\* `for session in sessions` binds the next session and lists its tools;
\* after the last one main() runs the aggregate server.
NextSession ==
    /\ \/ agg_pc = "spawn" /\ agg_si > Len(agg_registry)
       \/ /\ agg_pc = "register"
          /\ agg_ti > Len(ToolsOf(agg_registry[agg_si]))
    /\ LET next == IF agg_pc = "spawn" THEN 1 ELSE agg_si + 1
       IN  /\ agg_si' = next
           /\ IF next <= Len(agg_registry)
              THEN /\ agg_pc' = "register"
                   /\ agg_ti' = 1
                   /\ cell_session' = next
              ELSE /\ agg_pc' = "serving"
                   /\ agg_ti' = 0
                   /\ UNCHANGED cell_session
    /\ UNCHANGED <<agg_registry, registered, cell_tool, forwarded, clientSide,
                   tempVars>>

\* One iteration of `for t in tools`: a function is defined, registered
\* under t.name, and bound to the name _tool. A name the aggregate server
\* has already, it keeps or replaces.
RegisterTool(replace) ==
    /\ agg_pc = "register"
    /\ agg_ti <= Len(ToolsOf(agg_registry[agg_si]))
    /\ LET name == ToolsOf(agg_registry[agg_si])[agg_ti]
       IN  /\ registered' = IF name \in DOMAIN registered /\ ~replace
                            THEN registered
                            ELSE Put(registered, name, agg_si)
           /\ cell_tool' = name
    /\ agg_ti' = agg_ti + 1
    /\ UNCHANGED <<agg_registry, agg_pc, agg_si, cell_session, forwarded,
                   clientSide, tempVars>>

\* A client of the aggregate server calls tool n: the body reads session
\* and _tool when it runs, as main() left them.
ForwardTool(n, lookup) ==
    /\ agg_pc = "serving"
    /\ n \in DOMAIN registered
    /\ forwarded' =
           IF lookup = "AttributeError"
           THEN [tool |-> n, session |-> 0, name |-> "", error |-> lookup]
           ELSE [tool |-> n, session |-> cell_session, name |-> cell_tool,
                 error |-> ""]
    /\ UNCHANGED <<agg_registry, agg_pc, agg_si, agg_ti, registered,
                   cell_session, cell_tool, clientSide, tempVars>>

NextLaunch ==
    \/ \E ok \in BOOLEAN : Spawn(ok)
    \/ NextSession
    \/ \E replace \in BOOLEAN : RegisterTool(replace)
    \/ \E n \in DOMAIN registered, lookup \in Lookups : ForwardTool(n, lookup)

SpecLaunch == InitLaunch /\ [][NextLaunch]_vars

\* ------------------------------------------------------------- properties
\* The last k messages of a sequence.
Suffix(seq, k) == SubSeq(seq, Len(seq) - k + 1, Len(seq))

\* A turn is between its copy of the history and its commit.
InTurn(t) == pc[t] \in {"model", "tools", "await", "finalize"}

\* C1: turns against one client are fully serialized: while one turn is
\* between its initial read of the history and its commit, no other turn
\* has read the history or is about to commit to it.
C1_TurnsSerialized ==
    \A t1, t2 \in Slots : InTurn(t1) /\ InTurn(t2) => t1 = t2

\* Every assistant message of msgs that requests operations, none of them
\* image loading, is followed at once by one tool message per requested
\* invocation, in the order requested, each with the identifier of the
\* invocation it answers.
CallsAnswered(msgs) ==
    \A i \in 1..Len(msgs) :
        LET calls == msgs[i].tool_calls
        IN (/\ msgs[i].role = "assistant"
            /\ calls # NoCalls
            /\ \A j \in 1..Len(calls) : calls[j].name # "load_image") =>
               /\ i + Len(calls) <= Len(msgs)
               /\ \A j \in 1..Len(calls) :
                      /\ msgs[i + j].role = "tool"
                      /\ msgs[i + j].tool_call_id = calls[j].id
               /\ i + Len(calls) < Len(msgs) =>
                      msgs[i + Len(calls) + 1].role # "tool"

\* C2: at every engine call of every turn, each assistant message of the
\* working list that requests operations is immediately followed by exactly
\* one tool message per requested invocation, in the order requested, each
\* tagged with the call identifier it answers (stated here for the requests
\* that load no image, whose results clientcopy.py turns into user messages).
C2_CallsAnsweredAtEngineCall ==
    \A t \in Slots : pc[t] = "model" => CallsAnswered(messages[t])

\* A finished turn for a non-empty query in which the engine never
\* requested an operation.
PlainTurnDone(t) ==
    /\ pc[t] = "done"
    /\ query[t][1] = "query"
    /\ rounds[t] = 1
    /\ response[t].tool_calls = NoCalls

\* C3: a turn in which the engine never requests operations appends exactly
\* one user/assistant pair (the query, the engine's final content) to the
\* history it found and returns that content unchanged.
C3_PlainTurnAppendsOnePair ==
    \A t \in Slots : PlainTurnDone(t) =>
        /\ ret[t] = <<"ok", response[t].content>>
        /\ \E k \in 0..Len(history0[t]) :
               conversation_history =
                   Suffix(history0[t], k) \o
                       <<UserMsg(query[t]), AssistantText(response[t].content)>>

\* C4: within one turn the invocations are issued one at a time in the
\* order the engine requested them (list order inside a batch, batch after
\* batch): at most one is in flight, it is the one issued last, the calls
\* issued are a prefix of the calls requested, and the engine is called
\* again only when every requested call has been issued and has returned.
C4_InvocationsSequential ==
    \A t \in Slots :
        /\ Cardinality(inflight[t]) <= 1
        /\ Len(invoked[t]) <= Len(requested[t])
        /\ \A i \in 1..Len(invoked[t]) : invoked[t][i].id = requested[t][i]
        /\ inflight[t] # {} =>
               inflight[t] = {invoked[t][Len(invoked[t])].id}
        /\ pc[t] = "model" =>
               inflight[t] = {} /\ Len(invoked[t]) = Len(requested[t])

\* An invocation of a second round is in flight after a first round of
\* two invocations.
C4_Witness ==
    \E t \in Slots :
        /\ pc[t] = "await"
        /\ rounds[t] = 2
        /\ Len(invoked[t]) = 3
        /\ inflight[t] = {CallId(2, 1)}

\* C5: in every reachable state the conversation history holds no message
\* with role tool.
C5_NoToolMessageInHistory ==
    \A i \in 1..Len(conversation_history) :
        conversation_history[i].role # "tool"

\* A turn whose working list holds tool messages has committed.
C5_Witness ==
    \E t \in Slots :
        /\ pc[t] = "done"
        /\ \E i \in 1..Len(messages[t]) : messages[t][i].role = "tool"
        /\ conversation_history # << >>

\* Message m was produced in the turn for query number n.
FromTurn(m, n) ==
    \/ m.content[1] \in {"query", "blank"} /\ m.content[2] = n
    \/ m.content[1] = "answer" /\ m.content[2] \div 10 = n

\* The turn of caller t was aborted by an unmapped operation name.
UnknownRaised(t) == pc[t] = "raised" /\ ret[t] = ErrorText("unknown")

\* C6: a requested operation name that is not in tools_map makes the turn
\* raise; the operation is not invoked on any session (every call issued
\* names a mapped tool and goes to its server, and the loop stops at the
\* unmapped one), and the history holds nothing of the aborted turn: in the
\* chat loops it is exactly the history the turn started from.
C6_UnknownOperationAborts ==
    \A t \in Slots :
        /\ \A i \in 1..Len(invoked[t]) :
               /\ invoked[t][i].name \in DOMAIN tools_map
               /\ invoked[t][i].server = tools_map[invoked[t][i].name]
        /\ UnknownRaised(t) =>
               /\ response[t].tool_calls[idx[t]].name \notin DOMAIN tools_map
               /\ Len(invoked[t]) < Len(requested[t])
               /\ \A i \in 1..Len(invoked[t]) :
                      invoked[t][i].id # response[t].tool_calls[idx[t]].id
               /\ \A i \in 1..Len(conversation_history) :
                      ~FromTurn(conversation_history[i], query[t][2])
               /\ variant \in {"client", "copy"} =>
                      conversation_history = history0[t]

\* An unmapped name aborts a turn in its second round, after other calls of
\* the turn were issued, with a history that is not empty.
C6_Witness ==
    \E t \in Slots :
        /\ UnknownRaised(t)
        /\ rounds[t] = 2
        /\ invoked[t] # << >>
        /\ conversation_history # << >>

\* No caller is inside a turn.
AllTurnsComplete == \A t \in Slots : pc[t] = "idle"

\* C7: after every completed turn, successful or failed (the caller's error
\* path included), the history holds at most 2 x N messages.
C7_HistoryWithinBound ==
    AllTurnsComplete => Len(conversation_history) <= 2 * MaxLength

\* C8: with retention bound N, once 2N+3 successive turns have each
\* committed a user/assistant pair, the history is exactly the N most
\* recent pairs, each whole (user, then assistant), oldest first.
C8_TrimKeepsRecentPairs ==
    (nturns = 2 * MaxLength + 3 /\ pc[1] \in {"done", "idle"}) =>
        /\ Len(conversation_history) = 2 * MaxLength
        /\ \A k \in 1..MaxLength :
               LET n == nturns - MaxLength + k
                   user == conversation_history[2 * k - 1]
                   assistant == conversation_history[2 * k]
               IN /\ user.role = "user"
                  /\ user.content = <<"query", n>>
                  /\ assistant.role = "assistant"
                  /\ assistant.content = Content(n, 1)

\* The 2N+3-rd turn has committed.
C8_Witness ==
    /\ nturns = 2 * MaxLength + 3
    /\ pc[1] = "done"
    /\ ret[1] = <<"ok", Content(nturns, 1)>>

LastAssistant(msgs) ==
    IF \E i \in 1..Len(msgs) : msgs[i].role = "assistant"
    THEN CHOOSE i \in 1..Len(msgs) :
             /\ msgs[i].role = "assistant"
             /\ \A j \in (i + 1)..Len(msgs) : msgs[j].role # "assistant"
    ELSE 0

IsImage(m) == m.role = "user" /\ m.content[1] = "image"

\* C10: no image result is added to the working list until every
\* invocation of the batch has been processed; then the queued image
\* results follow all tool messages of the batch.
C10_ImagesAfterBatch ==
    \A t \in Slots :
        LET msgs == messages[t]
            a == LastAssistant(msgs)
        IN /\ pc[t] \in {"tools", "await"} =>
                  \A i \in (a + 1)..Len(msgs) : ~IsImage(msgs[i])
           /\ (pc[t] = "model" /\ rounds[t] >= 1) =>
                  \A i, j \in (a + 1)..Len(msgs) :
                      (i < j /\ IsImage(msgs[i])) => msgs[j].role # "tool"

\* ----------------------------------------------------- registry properties
\* The names a listing carries.
Names(tools) == {tools[i] : i \in 1..Len(tools)}

\* connect_to_server is about to be called for an id that is connected.
DuplicateConnect ==
    /\ Connecting
    /\ servers[server_i].script # ""
    /\ servers[server_i].name \in DOMAIN sessions

\* C11: connect(id, path) called while id is a connected session fails with
\* the duplicate-session error and leaves the session set and the tool map
\* as they were, so every operation of the first session still resolves to
\* it and its session is there to be invoked.
C11_DuplicateConnectFails ==
    [][DuplicateConnect =>
          /\ outcome'[server_i] = "duplicate"
          /\ sessions' = sessions
          /\ tools_map' = tools_map
          /\ \A n \in DOMAIN tools_map :
                 /\ Resolve(tools_map', n) = tools_map[n]
                 /\ Resolve(tools_map', n) \in DOMAIN sessions'
                 /\ sessions'[Resolve(tools_map', n)] = sessions[tools_map[n]]]_vars

\* A second connect for the id of a session that owns tools was refused.
C11_Witness ==
    \E i \in 1..Len(servers) :
        /\ outcome[i] = "duplicate"
        /\ servers[i].script = "fetch.js"
        /\ \E n \in DOMAIN tools_map :
               /\ tools_map[n] = servers[i].name
               /\ sessions[tools_map[n]] < i

\* The entries whose connect went through and whose listing carries n.
Advertisers(n) ==
    {i \in 1..Len(servers) :
        outcome[i] = "connected" /\ n \in Names(ToolsOf(servers[i].script))}

Latest(S) == CHOOSE i \in S : \A j \in S : j <= i

\* C12: after any sequence of successful connects (and as long as the
\* client has not been cleaned up), a name advertised by more than one
\* connected session resolves to the session that registered it last, and
\* the catalog built for the engine has exactly one descriptor with that
\* name.
C12_LastWriteWins ==
    \A k \in 1..Len(ToolOrder) :
        LET n == ToolOrder[k]
            catalog == Catalog(servers, sessions, tools_map)
        IN (conn_pc # "aborted" /\ Cardinality(Advertisers(n)) > 1) =>
              /\ Resolve(tools_map, n) = servers[Latest(Advertisers(n))].name
              /\ sessions[Resolve(tools_map, n)] = Latest(Advertisers(n))
              /\ Cardinality({j \in 1..Len(catalog) : catalog[j].name = n}) = 1

\* Two servers that both advertise calculate are connected, the one that
\* advertises it alone being the later one.
C12_Witness ==
    /\ conn_pc = "ready"
    /\ Cardinality(Advertisers("calculate")) > 1
    /\ servers[Latest(Advertisers("calculate"))].script = "calc.py"
    /\ \E i \in Advertisers("calculate") : servers[i].script = "fetch.js"

\* C13: during startup a provider whose connect fails at any step is
\* skipped: every later provider is still attempted (none is left pending
\* when startup is over), and the failed provider leaves no session and no
\* index entry in the registry.
C13_FailedProviderSkipped ==
    /\ conn_pc = "ready" => \A i \in 1..Len(servers) : outcome[i] # "pending"
    /\ \A i \in 1..Len(servers) :
           outcome[i] \in {"duplicate", "unsupported", "handshake", "listing"} =>
               /\ \A id \in DOMAIN sessions : sessions[id] # i
               /\ \A n \in DOMAIN tools_map :
                      tools_map[n] \in DOMAIN sessions =>
                          sessions[tools_map[n]] # i

\* ------------------------------------------------------- router properties
\* Pipeline i reached the threshold in the turn that was routed last.
Qualifies(i) == ~scores[i].score.nan /\ scores[i].score.val >= Threshold

\* C14: with routing disabled the catalog sent to the engine in a turn is
\* the full registry catalog; with routing enabled it holds only operations
\* that are members of a pipeline whose score in that turn is at least the
\* threshold.
C14_CatalogSentToEngine ==
    \A t \in Slots :
        InTurn(t) =>
            IF variant = "copy" /\ use_local
            THEN \A k \in 1..Len(available_tools) :
                     \E i \in 1..Len(scores) :
                         /\ Qualifies(i)
                         /\ available_tools[k].name \in Names(Pipelines[i].tools)
            ELSE available_tools = Catalog(servers, sessions, tools_map)

\* Where a tool first occurs when the qualifying pipelines are laid end to
\* end in pipeline order.
FirstSeen(x) ==
    LET at == {100 * i + j : i \in 1..Len(scores), j \in 1..2}
        hits == {c \in at :
                    /\ Qualifies(c \div 100)
                    /\ c % 100 <= Len(Pipelines[c \div 100].tools)
                    /\ Pipelines[c \div 100].tools[c % 100] = x}
    IN CHOOSE c \in hits : \A e \in hits : c <= e

\* C15: the selection is exactly the member operations of the pipelines
\* whose score is at least the threshold (a score equal to the threshold
\* qualifies with all members, a score below contributes nothing), each
\* operation once, ordered by first occurrence across the qualifying
\* pipelines taken in pipeline order.
C15_SelectionExact ==
    (use_local /\ scores # << >>) =>
        /\ Names(selected_tools) =
               UNION {Names(Pipelines[i].tools) :
                         i \in {j \in 1..Len(scores) : Qualifies(j)}}
        /\ \A a, b \in 1..Len(selected_tools) :
               a < b =>
                   /\ selected_tools[a] # selected_tools[b]
                   /\ FirstSeen(selected_tools[a]) < FirstSeen(selected_tools[b])

\* One pipeline scored exactly the threshold and the other above it: the
\* shared tool is selected once, where the first pipeline put it.
C15_Witness ==
    /\ use_local
    /\ Len(scores) = 2
    /\ scores[1].text = "0.5"
    /\ scores[2].text = "0.9"
    /\ selected_tools = <<"load_image", "calculate", "plot">>

\* The operations offered to the engine had the scorer answered `texts`.
OfferedFor(texts) ==
    Names([k \in 1..Len(Narrowed(Catalog(servers, sessions, tools_map),
                                   router_llm(texts, Threshold))) |->
              Narrowed(Catalog(servers, sessions, tools_map),
                       router_llm(texts, Threshold))[k].name])

\* C16: a pipeline whose scoring response is malformed gets score 0, and
\* the parse failure never widens the offer: the operations offered in that
\* turn are among those that would have been offered had the response been
\* any number.
C16_ParseFailureExcludes ==
    \A t \in Slots :
        (InTurn(t) /\ use_local) =>
            \A i \in 1..Len(scores) :
                Malformed(scores[i].text) =>
                    /\ scores[i].score = Float(0)
                    /\ \A x \in {y \in ScorerTexts : ~Malformed(y)} :
                           Names([k \in 1..Len(available_tools) |->
                                     available_tools[k].name])
                           \subseteq
                           OfferedFor([j \in 1..Len(scores) |->
                                          IF j = i THEN x ELSE scores[j].text])

\* C17: every score that is compared with the threshold lies in [0, 1].
C17_ScoreInUnitInterval ==
    \A i \in 1..Len(scores) :
        /\ ~scores[i].score.nan
        /\ scores[i].score.val >= 0
        /\ scores[i].score.val <= 100

\* C18: the recent-query window holds at most 5 queries, non-empty ones in
\* submission order, and every submission of a query appends it, evicting
\* exactly the oldest entry when the window is full; nothing else changes
\* the window.  So it always holds the most recently submitted queries.
C18_RecentWindow ==
    /\ [](/\ Len(recent_questions) <= 5
          /\ \A i \in 1..Len(recent_questions) :
                 /\ recent_questions[i][1] = "query"
                 /\ recent_questions[i][2] <= nturns
                 /\ i > 1 => recent_questions[i - 1][2] < recent_questions[i][2])
    /\ [][IF nturns' = nturns + 1 /\ query'[1][1] = "query"
          THEN recent_questions' =
                   Append(IF Len(recent_questions) = 5
                          THEN Tail(recent_questions) ELSE recent_questions,
                          query'[1])
          ELSE recent_questions' = recent_questions]_vars

\* A query was submitted to a full window and the oldest one is gone.
C18_Witness ==
    /\ Len(recent_questions) = 5
    /\ recent_questions[1][2] > 1
    /\ recent_questions[5][2] = nturns

\* --------------------------------------------------- failure properties
\* C19: when a provider reports a failure for an invocation, the failure
\* text becomes the content of that invocation's tool message, tagged with
\* its call identifier; the turn is not aborted by it, and the working list
\* the engine is called with next holds that message.
C19_FailureBecomesToolMessage ==
    \A t \in Slots :
        /\ \A k \in 1..Len(reported[t]) :
               \E i \in 1..Len(messages[t]) :
                   messages[t][i] = ToolMsg(reported[t][k].text, reported[t][k].id)
        /\ pc[t] = "raised" => ret[t] # ErrorText("provider")

\* C19, amended: a failure reported for an operation other than image
\* loading becomes the content of that invocation's tool message, tagged
\* with its call identifier; the text reported by clientcopy.py's image
\* loading is queued like any of its results and reaches the working list
\* as a user image message.  In both cases the turn is not aborted by the
\* failure and the working list of the next engine call holds the message.
C19_FailureSurfaced ==
    \A t \in Slots :
        /\ \A k \in 1..Len(reported[t]) :
               \E i \in 1..Len(messages[t]) :
                   messages[t][i] =
                       IF variant = "copy" /\ reported[t][k].name = "load_image"
                       THEN ImageMsg(reported[t][k].text)
                       ELSE ToolMsg(reported[t][k].text, reported[t][k].id)
        /\ pc[t] = "raised" => ret[t] # ErrorText("provider")

\* The engine has been called again after a provider reported a failure
\* for calculate.
C19_Witness ==
    \E t \in Slots :
        /\ pc[t] = "finalize"
        /\ rounds[t] >= 2
        /\ \E k \in 1..Len(reported[t]) : reported[t][k].name = "calculate"
        /\ messages[t][Len(messages[t])].role = "assistant"

\* The caller t is done with a failed turn.
ErrorHandled(t) ==
    /\ pc[t] \in {"raised", "recording"}
    /\ pc'[t] = "idle"

\* C20: whenever a turn ends in an error, in every caller variant, the
\* caller extends the history with exactly the user's query followed by a
\* synthetic assistant message carrying the error text.
C20_ErrorRecordedInHistory ==
    [][\A t \in Slots :
          ErrorHandled(t) =>
              /\ Len(conversation_history') >= 2
              /\ Suffix(conversation_history', 2) =
                     <<UserMsg(query[t]), AssistantText(ret[t])>>]_vars

\* ------------------------------------------------ the scratch directory

\* C21: when cleanup() has returned, no entry that was older than the TTL
\* when it began is left under the root, whatever the usage was.
C21_ExpiredRemoved ==
    tm_pc = "returned" =>
        \A e \in entries0 : tm_now - e.mtime > TtlMs => e \notin entries

\* An old file is gone and a young one is left, with the usage under the
\* ceiling from the start.
C21_Witness ==
    /\ tm_pc = "returned"
    /\ Usage(entries0) <= MaxBytes
    /\ \E e \in entries0 :
            e.kind = "file" /\ tm_now - e.mtime > TtlMs /\ e \notin entries
    /\ \E e \in entries : tm_now - e.mtime <= TtlMs

\* C22: when the usage is above the ceiling after the first loop, cleanup()
\* returns with the usage at or under the ceiling, every entry the second
\* loop deleted is at least as old as every entry left, and the entry it
\* deleted last was needed to get under the ceiling.
C22_OldestFirstToCeiling ==
    (tm_pc = "returned" /\ Usage(size0) > MaxBytes) =>
        LET removed == size0 \ entries
        IN  /\ Usage(entries) <= MaxBytes
            /\ \A d \in removed, r \in entries : d.mtime <= r.mtime
            /\ \E d \in Newest(removed) : Usage(entries) + d.size > MaxBytes

\* The second loop deleted some entries and left others.
C22_Witness ==
    /\ tm_pc = "returned"
    /\ Usage(size0) > MaxBytes
    /\ entries # {}
    /\ \E d \in size0 \ entries, r \in entries : d.mtime < r.mtime

\* C23: cleanup() returns normally although single entries cannot be deleted
\* or inspected: it raises only when the root itself is missing.
C23_SweepSurvivesFailures ==
    tm_pc = "raised" => ~root_exists

\* C24: the paths allocate() has returned lie directly under the root and
\* no two of them are equal.
C24_AllocatedDistinct ==
    \A i, j \in 1..Len(allocated) :
        /\ allocated[i].parent = 0
        /\ i # j => allocated[i] # allocated[j]

\* C25: when allocate() follows clear_all(), the path it returns lies
\* directly under the root, and the root exists and is empty.
C25_ClearThenAllocate ==
    tm_op = <<"clear_all", "allocate">> =>
        /\ allocated[Len(allocated)].parent = 0
        /\ root_exists
        /\ entries = {}

C25_Witness ==
    /\ tm_op = <<"clear_all", "allocate">>
    /\ allocated # << >>
    /\ root_exists
    /\ entries = {}

\* C29: when the usage is under the ceiling, every entry that was no older
\* than the TTL when cleanup() began is still there when it has returned.
C29_TtlPassKeepsFresh ==
    (tm_pc = "returned" /\ Usage(entries0) <= MaxBytes) =>
        \A e \in entries0 : tm_now - e.mtime <= TtlMs => e \in entries

\* ------------------------------------------------------------ the commit

\* What the turn of caller t has added to the list it copied from the
\* history.
Produced(t) == SubSeq(messages[t], Len(history0[t]) + 1, Len(messages[t]))

\* C26: the commit of a turn sets the history to the trim of the history
\* before it followed by messages of this turn only (its non-tool messages,
\* or its query and its final answer): nothing that was in the history
\* already is appended again.
C26_CommitAppendsTurnOnly ==
    [][\A t \in Slots :
           (pc[t] = "finalize" /\ pc'[t] = "done") =>
               \E new \in {Filtered(Produced(t)),
                           <<UserMsg(query[t]),
                             AssistantText(response[t].content)>>} :
                   conversation_history' =
                       trim_history(conversation_history \o new, MaxLength)]_vars

\* ----------------------------------------------------------- termination

\* C27: with an engine that ends up answering without tool work and
\* providers that answer every invocation, a turn that has started ends up
\* committed (or aborted by an operation name nobody registered); and a turn
\* waiting for an invocation leaves that wait only when the invocation has
\* come back: no step of the loop times it out.
C27_TurnCompletes ==
    /\ \A t \in Slots :
           (pc[t] \in {"model", "tools", "await", "finalize"})
               ~> (pc[t] = "done" \/ UnknownRaised(t))
    /\ [][\A t \in Slots :
              (pc[t] = "await" /\ pc'[t] # "await") =>
                  inflight'[t] # inflight[t]]_vars

\* A turn that went through MaxRounds rounds of tool work has committed.
C27_Witness ==
    \E t \in Slots :
        /\ pc[t] = "done"
        /\ rounds[t] > 1
        /\ invoked[t] # << >>
        /\ inflight[t] = {}

\* --------------------------------------------------- the narrowed catalog

\* C28: in a turn whose catalog the router has narrowed, every operation
\* the orchestrator invokes is one of the catalog given to the engine.
C28_InvokesOnlyOffered ==
    \A t \in Slots :
        (InTurn(t) /\ use_local /\ selected_tools # << >>) =>
            \A i \in 1..Len(invoked[t]) :
                \E k \in 1..Len(available_tools) :
                    available_tools[k].name = invoked[t][i].name

\* ------------------------------------------------- the aggregating server

\* C30: a call of the aggregated tool n is forwarded, under the name n, to
\* a session whose provider advertised n.
C30_ForwardsToAdvertiser ==
    forwarded.tool # "" =>
        /\ forwarded.error = ""
        /\ forwarded.name = forwarded.tool
        /\ forwarded.session \in 1..Len(agg_registry)
        /\ forwarded.tool \in Names(ToolsOf(agg_registry[forwarded.session]))

====
